---- MODULE Spec2Model ----
(***************************************************************************)
(* fasm: the assembler for the Xonotic StackVM (src/fasm.py).              *)
(*                                                                         *)
(* Text is a sequence of one-character strings.  The parsy grammar is      *)
(* modelled as operators from (text, index) to a parse result; the         *)
(* assembler backend (label table pass, code generation pass, linking and  *)
(* writing) is modelled as a state machine with one action per statement   *)
(* of the script that changes state.                                       *)
(***************************************************************************)
EXTENDS Integers, Sequences, FiniteSets, TLC

VARIABLES
    source_code,      \* text read from the input file
    pc,               \* position of the script
    ast,              \* result of program.parse
    address_counter,
    labels,           \* dict: label name -> address
    node_index,       \* position of the running `for node in ast` iterator
    instructions,     \* list of rendered instructions
    vm_program,       \* string built by the linking loop
    link_index,       \* position of the `enumerate(instructions)` iterator
    output_file,      \* the output file: whether it exists, and its content
    error             \* the exception that ended the run, if any

vars == <<source_code, pc, ast, address_counter, labels, node_index,
          instructions, vm_program, link_index, output_file, error>>

----------------------------------------------------------------------------
(* Bounds of the model. *)

\* most statements in a source text of the assembler-level inputs
MaxStmts == 4
\* most lexical pieces in a source text of the lexer-level inputs
MaxWords == 4

----------------------------------------------------------------------------
(* Character classes of the regular expressions. *)

Lower == {"a","b","c","d","e","f","g","h","i","j","k","l","m",
          "n","o","p","q","r","s","t","u","v","w","x","y","z"}
Upper == {"A","B","C","D","E","F","G","H","I","J","K","L","M",
          "N","O","P","Q","R","S","T","U","V","W","X","Y","Z"}
DigitSeq == <<"0","1","2","3","4","5","6","7","8","9">>
Digit == {DigitSeq[k] : k \in 1..10}
\* [A-Za-z_]
IdentStart == Lower \cup Upper \cup {"_"}
\* [A-Za-z0-9_], which is also \w on this alphabet
IdentChar == IdentStart \cup Digit
\* \s
Space == {" ", "\n", "\t", "\r", "\f"}

----------------------------------------------------------------------------
(* Python values that occur in parse results and nodes. *)

PyStr(cs) == [ty |-> "str", v |-> cs]
PyInt(n) == [ty |-> "int", v |-> n]
\* a float read from decimal text: integer part and the fraction's digits
\* with trailing zeros dropped
PyFloat(ip, fr) == [ty |-> "float", v |-> <<ip, fr>>]
PyList(a, b) == [ty |-> "list", v |-> <<a, b>>]
None == [ty |-> "NoneType", v |-> <<>>]

DigitVal(c) == (CHOOSE k \in 1..10 : DigitSeq[k] = c) - 1

\* int(text) for text matching [0-9]+
RECURSIVE int(_)
int(ds) ==
    IF Len(ds) = 0 THEN 0
    ELSE 10 * int(SubSeq(ds, 1, Len(ds) - 1)) + DigitVal(ds[Len(ds)])

\* str(n) for an int n >= 0
RECURSIVE IntStr(_)
IntStr(n) ==
    IF n < 10 THEN <<DigitSeq[n + 1]>>
    ELSE IntStr(n \div 10) \o <<DigitSeq[(n % 10) + 1]>>

RECURSIVE DropTrailingZeros(_)
DropTrailingZeros(ds) ==
    IF Len(ds) > 0 /\ ds[Len(ds)] = "0"
    THEN DropTrailingZeros(SubSeq(ds, 1, Len(ds) - 1))
    ELSE ds

\* float(text) for text matching [0-9]*[.][0-9]+ ; dot is the index of "."
float(cs, dot) ==
    PyFloat(int(SubSeq(cs, 1, dot - 1)),
            DropTrailingZeros(SubSeq(cs, dot + 1, Len(cs))))

\* str(x) for a float in the range where repr is positional, 1e-4 <= x < 1e16
FloatStr(f) ==
    IntStr(f[1]) \o <<".">> \o (IF Len(f[2]) = 0 THEN <<"0">> ELSE f[2])

\* str(value), as the f-strings of the code generator format an operand
Str(x) ==
    CASE x.ty = "str" -> x.v
      [] x.ty = "int" -> IntStr(x.v)
      [] x.ty = "float" -> FloatStr(x.v)
      [] OTHER -> <<"N","o","n","e">>

----------------------------------------------------------------------------
(* parsy combinators.  A result is [ok, val, idx]: idx is the index of the *)
(* first character not consumed.                                           *)

Ok(v, j) == [ok |-> TRUE, val |-> v, idx |-> j]
Fail(i) == [ok |-> FALSE, val |-> None, idx |-> i]

\* the end of the longest run of characters of Class starting at i
RECURSIVE Span(_, _, _)
Span(s, i, Class) ==
    IF i <= Len(s) /\ s[i] \in Class THEN Span(s, i + 1, Class) ELSE i

\* p1 | p2 | ... : the first alternative that succeeds at the index
RECURSIVE alt(_, _)
alt(rs, i) ==
    IF Len(rs) = 0 THEN Fail(i)
    ELSE IF Head(rs).ok THEN Head(rs) ELSE alt(Tail(rs), i)

\* WHITESPACE = regex(r"\s*")
WHITESPACE(s, i) == Ok(PyStr(SubSeq(s, i, Span(s, i, Space) - 1)), Span(s, i, Space))

\* token(parser) = parser << WHITESPACE, applied to the parser's result
token(r, s) == IF r.ok THEN Ok(r.val, WHITESPACE(s, r.idx).idx) ELSE r

\* (mutant) regex(word): the keyword without the word boundary
WordNoBoundary(word, s, i) ==
    LET j == i + Len(word) IN
    IF j - 1 <= Len(s) /\ SubSeq(s, i, j - 1) = word
    THEN Ok(PyStr(word), j)
    ELSE Fail(i)

\* regex(word + r"\b") for a word of letters
WordBoundary(word, s, i) ==
    LET j == i + Len(word) IN
    IF /\ j - 1 <= Len(s)
       /\ SubSeq(s, i, j - 1) = word
       /\ (j > Len(s) \/ s[j] \notin IdentChar)
    THEN Ok(PyStr(word), j)
    ELSE Fail(i)

\* literal(word)
literal(word, s, i) == token(WordBoundary(word, s, i), s)

\* parser.result(value)
result(r, value) == IF r.ok THEN Ok(value, r.idx) ELSE r

\* seq(p1, p2), given p1's result and p2's result at p1's index
seq(r1, r2) ==
    IF r1.ok /\ r2.ok THEN Ok(PyList(r1.val, r2.val), r2.idx) ELSE Fail(r1.idx)

\* (mutant) p1 >> p2: the left value is dropped
plus_DropLeft(r1, r2) ==
    IF r1.ok /\ r2.ok THEN Ok(PyStr(r2.val.v), r2.idx) ELSE Fail(r1.idx)

\* p1 + p2 = seq(p1, p2).combine(operator.add) on two strings
plus(r1, r2) ==
    IF r1.ok /\ r2.ok THEN Ok(PyStr(r1.val.v \o r2.val.v), r2.idx) ELSE Fail(r1.idx)

\* p1 << p2 : both must match, the left value is kept
skip(r1, r2) == IF r1.ok /\ r2.ok THEN Ok(r1.val, r2.idx) ELSE Fail(r1.idx)

\* string(c) for a one-character string
string(c, s, i) == IF i <= Len(s) /\ s[i] = c THEN Ok(PyStr(<<c>>), i + 1) ELSE Fail(i)

----------------------------------------------------------------------------
(* The words of the grammar, as text. *)

w_push == <<"p","u","s","h">>
w_pop == <<"p","o","p">>
w_dup == <<"d","u","p">>
w_dot == <<"d","o","t">>
w_add == <<"a","d","d">>
w_sub == <<"s","u","b">>
w_mul == <<"m","u","l">>
w_div == <<"d","i","v">>
w_pow == <<"p","o","w">>
w_min == <<"m","i","n">>
w_max == <<"m","a","x">>
w_jmp == <<"j","m","p">>
w_jif == <<"j","i","f">>
w_call == <<"c","a","l","l">>
w_ret == <<"r","e","t">>
w_eq == <<"e","q">>
w_ne == <<"n","e">>
w_lt == <<"l","t">>
w_le == <<"l","e">>
w_gt == <<"g","t">>
w_ge == <<"g","e">>
w_store == <<"s","t","o","r","e">>
w_load == <<"l","o","a","d">>
w_gstore == <<"g","s","t","o","r","e">>
w_gload == <<"g","l","o","a","d">>
w_hlt == <<"h","l","t">>
w_true == <<"t","r","u","e">>
w_false == <<"f","a","l","s","e">>
w_iseq == <<"i","s","e","q">>
w_isneq == <<"i","s","n","e","q">>
w_islt == <<"i","s","l","t">>
w_isle == <<"i","s","l","e">>
w_isgt == <<"i","s","g","t">>
w_isge == <<"i","s","g","e">>
w_store_l == <<"s","t","o","r","e","_","l">>
w_load_l == <<"l","o","a","d","_","l">>
w_store_g == <<"s","t","o","r","e","_","g">>
w_load_g == <<"l","o","a","d","_","g">>

----------------------------------------------------------------------------
(* The grammar: ( [LABEL] [OPCODE [ARG]] )* *)

\* regex("[A-Za-z_]+[A-Za-z0-9_]*")
IDENTIFIER(s, i) ==
    IF i <= Len(s) /\ s[i] \in IdentStart
    THEN Ok(PyStr(SubSeq(s, i, Span(s, i, IdentChar) - 1)), Span(s, i, IdentChar))
    ELSE Fail(i)

COLON(s, i) == string(":", s, i)
FORWARD_SLASH(s, i) == string("/", s, i)

\* regex("[0-9]+").map(int)
INTEGER(s, i) ==
    LET j == Span(s, i, Digit) IN
    IF j > i THEN Ok(PyInt(int(SubSeq(s, i, j - 1))), j) ELSE Fail(i)

\* regex("[0-9]*[.][0-9]+").map(float)
FLOAT(s, i) ==
    LET dot == Span(s, i, Digit)
        j == Span(s, dot + 1, Digit)
    IN  IF dot <= Len(s) /\ s[dot] = "." /\ j > dot + 1
        THEN Ok(float(SubSeq(s, i, j - 1), dot - i + 1), j)
        ELSE Fail(i)

NUMBER(s, i) == alt(<<FLOAT(s, i), INTEGER(s, i)>>, i)

TRUE_(s, i) == result(literal(w_true, s, i), PyInt(1))
FALSE_(s, i) == result(literal(w_false, s, i), PyInt(0))
BOOLEAN_(s, i) == alt(<<TRUE_(s, i), FALSE_(s, i)>>, i)

\* label(result): the node of a label declaration
label(res) == [type |-> "label", value |-> res]

\* LABEL = token(IDENTIFIER << COLON).map(label)
LABEL(s, i) ==
    LET id == IDENTIFIER(s, i)
        r == token(skip(id, COLON(s, id.idx)), s)
    IN  IF r.ok THEN Ok(label(r.val), r.idx) ELSE Fail(i)

\* PUSH = seq(literal("push"), NUMBER | BOOLEAN | FORWARD_SLASH + IDENTIFIER)
PushOperand(s, i) ==
    alt(<<NUMBER(s, i),
          BOOLEAN_(s, i),
          plus(FORWARD_SLASH(s, i), IDENTIFIER(s, FORWARD_SLASH(s, i).idx))>>, i)

PUSH(s, i) ==
    LET op == literal(w_push, s, i) IN
    IF op.ok THEN seq(op, PushOperand(s, op.idx)) ELSE Fail(i)

STACK_OP(s, i) ==
    alt(<<PUSH(s, i), literal(w_pop, s, i), literal(w_dup, s, i),
          literal(w_dot, s, i)>>, i)

ARITHMETIC_OP(s, i) ==
    alt(<<literal(w_add, s, i), literal(w_sub, s, i), literal(w_mul, s, i),
          literal(w_div, s, i), literal(w_pow, s, i), literal(w_min, s, i),
          literal(w_max, s, i)>>, i)

\* BRANCH_OP = seq(JMP | JIF | CALL, IDENTIFIER) | RET
BRANCH_OP(s, i) ==
    LET op == alt(<<literal(w_jmp, s, i), literal(w_jif, s, i),
                    literal(w_call, s, i)>>, i)
    IN  alt(<<IF op.ok THEN seq(op, IDENTIFIER(s, op.idx)) ELSE Fail(i),
              literal(w_ret, s, i)>>, i)

LOGICAL_OP(s, i) ==
    alt(<<result(literal(w_eq, s, i), PyStr(w_iseq)),
          result(literal(w_ne, s, i), PyStr(w_isneq)),
          result(literal(w_lt, s, i), PyStr(w_islt)),
          result(literal(w_le, s, i), PyStr(w_isle)),
          result(literal(w_gt, s, i), PyStr(w_isgt)),
          result(literal(w_ge, s, i), PyStr(w_isge))>>, i)

\* IO_OP = seq(STORE | LOAD | GSTORE | GLOAD, IDENTIFIER)
IO_OP(s, i) ==
    LET op == alt(<<result(literal(w_store, s, i), PyStr(w_store_l)),
                    result(literal(w_load, s, i), PyStr(w_load_l)),
                    result(literal(w_gstore, s, i), PyStr(w_store_g)),
                    result(literal(w_gload, s, i), PyStr(w_load_g))>>, i)
    IN  IF op.ok THEN seq(op, IDENTIFIER(s, op.idx)) ELSE Fail(i)

HLT(s, i) == literal(w_hlt, s, i)

\* opcode(result): the node of an instruction
opcode(res) ==
    IF res.ty = "list"
    THEN [type |-> "opcode", value |-> [opcode |-> res.v[1], arg |-> res.v[2]]]
    ELSE [type |-> "opcode", value |-> [opcode |-> res, arg |-> None]]

\* OPCODE = token(STACK_OP | ARITHMETIC_OP | BRANCH_OP | LOGICAL_OP | IO_OP | HLT)
\*              .map(opcode)
OPCODE(s, i) ==
    LET r == token(alt(<<STACK_OP(s, i), ARITHMETIC_OP(s, i), BRANCH_OP(s, i),
                         LOGICAL_OP(s, i), IO_OP(s, i), HLT(s, i)>>, i), s)
    IN  IF r.ok THEN Ok(opcode(r.val), r.idx) ELSE Fail(i)

statement(s, i) == alt(<<LABEL(s, i), OPCODE(s, i)>>, i)

\* statement.many(): statements until one fails; acc is the list so far
RECURSIVE many(_, _, _)
many(s, i, acc) ==
    LET r == statement(s, i) IN
    IF r.ok THEN many(s, r.idx, Append(acc, r.val)) ELSE Ok(acc, i)

\* program = WHITESPACE >> statement.many()
program(s) == many(s, WHITESPACE(s, 1).idx, <<>>)

\* program.parse(text): the whole text must be consumed, else ParseError
parse(s) ==
    LET r == program(s) IN
    IF r.idx = Len(s) + 1 THEN r ELSE Fail(r.idx)

----------------------------------------------------------------------------
(* The assembler backend. *)

NoError == [kind |-> "none", msg |-> <<>>]
ParseError == [kind |-> "ParseError", msg |-> <<>>]
\* Exception(f"Undefined label: '{label_name}'")
UndefinedLabel(label_name) ==
    [kind |-> "Exception",
     msg |-> <<"U","n","d","e","f","i","n","e","d"," ","l","a","b","e","l",":"," ","'">> \o label_name \o <<"'">>]

NoFile == [exists |-> FALSE, content |-> <<>>]
EmptyDict == [k \in {} |-> 0]

\* labels[label] = label_address
DictSet(d, k, x) == [n \in DOMAIN d \cup {k} |-> IF n = k THEN x ELSE d[n]]

\* opcode in ("call", "jmp", "jif")
IsBranch(op) == op.v \in {w_call, w_jmp, w_jif}

\* f'alias __svm.{index} "{instruction}"\n'
Directive(index, instruction) ==
    <<"a","l","i","a","s"," ","_","_","s","v","m",".">> \o IntStr(index)
        \o <<" ", "\"">> \o instruction \o <<"\"", "\n">>

\* the concatenation of the texts of a list
RECURSIVE Flat(_)
Flat(ws) == IF Len(ws) = 0 THEN <<>> ELSE Head(ws) \o Flat(Tail(ws))

\* the lists of at most n elements of S
ListsUpTo(S, n) == UNION {[1..k -> S] : k \in 0..n}

\* statements the assembler-level source texts are made of
StmtPool ==
    {<<"a",":">>,
     <<"b",":"," ">>,
     <<"h","l","t","\n">>,
     <<"j","m","p"," ","a","\n">>,
     <<"j","i","f"," ","b","\n">>,
     <<"c","a","l","l"," ","a","\n">>,
     <<"p","u","s","h"," ",".","5","\n">>}

\* lexical pieces the lexer-level source texts are made of
WordPool ==
    {<<"p","o","p">>,
     <<"u","l","a","r">>,
     <<"u","l","a","r",":">>,
     <<"s","t","o","r","e"," ">>,
     <<"j","m","p"," ">>,
     <<"p","u","s","h"," ">>,
     <<"/">>,
     <<"0">>,
     <<"t","r","u","e">>,
     <<"f","a","l","s","e">>}

\* the state before line 155, for a source file of the given content
Start(text) ==
    /\ source_code = text
    /\ pc = "parse"
    /\ ast = <<>>
    /\ address_counter = 0
    /\ labels = EmptyDict
    /\ node_index = 1
    /\ instructions = <<>>
    /\ vm_program = <<>>
    /\ link_index = 1
    /\ output_file = NoFile
    /\ error = NoError

Init == \E ws \in ListsUpTo(StmtPool, MaxStmts) : Start(Flat(ws))

InitLex == \E ws \in ListsUpTo(WordPool, MaxWords) : Start(Flat(ws))

\* lines 155-159: ast = program.parse(source_code), then the counter and the
\* label table are initialised; a ParseError ends the run
Parse ==
    /\ pc = "parse"
    /\ LET r == parse(source_code) IN
       IF r.ok
       THEN /\ ast' = r.val
            /\ address_counter' = 0
            /\ labels' = EmptyDict
            /\ node_index' = 1
            /\ pc' = "resolve"
            /\ error' = error
       ELSE /\ error' = ParseError
            /\ pc' = "failed"
            /\ UNCHANGED <<ast, address_counter, labels, node_index>>
    /\ UNCHANGED <<source_code, instructions, vm_program, link_index, output_file>>

\* (mutant) a redeclaration keeps the earlier binding
ResolveLabel_FirstWins ==
    /\ pc = "resolve"
    /\ node_index <= Len(ast)
    /\ ast[node_index].type = "label"
    /\ labels' = IF ast[node_index].value.v \in DOMAIN labels THEN labels
                 ELSE DictSet(labels, ast[node_index].value.v, address_counter)
    /\ node_index' = node_index + 1
    /\ UNCHANGED <<source_code, pc, ast, address_counter, instructions,
                   vm_program, link_index, output_file, error>>

\* (mutant) a label is bound to the address after the next instruction
ResolveLabel_OffByOne ==
    /\ pc = "resolve"
    /\ node_index <= Len(ast)
    /\ ast[node_index].type = "label"
    /\ labels' = DictSet(labels, ast[node_index].value.v, address_counter + 1)
    /\ node_index' = node_index + 1
    /\ UNCHANGED <<source_code, pc, ast, address_counter, instructions,
                   vm_program, link_index, output_file, error>>

\* lines 161-167: a label node binds its name to the counter
ResolveLabel ==
    /\ pc = "resolve"
    /\ node_index <= Len(ast)
    /\ ast[node_index].type = "label"
    /\ labels' = DictSet(labels, ast[node_index].value.v, address_counter)
    /\ node_index' = node_index + 1
    /\ UNCHANGED <<source_code, pc, ast, address_counter, instructions,
                   vm_program, link_index, output_file, error>>

\* lines 169-170: an opcode node advances the counter.  The `else` of lines
\* 172-173 needs a node of a third type, which the parser never makes.
ResolveOpcode ==
    /\ pc = "resolve"
    /\ node_index <= Len(ast)
    /\ ast[node_index].type = "opcode"
    /\ address_counter' = address_counter + 1
    /\ node_index' = node_index + 1
    /\ UNCHANGED <<source_code, pc, ast, labels, instructions,
                   vm_program, link_index, output_file, error>>

\* lines 176-179: after the first loop, the counter is reset and the
\* instruction list created
ResetCounter ==
    /\ pc = "resolve"
    /\ node_index > Len(ast)
    /\ address_counter' = 0
    /\ instructions' = <<>>
    /\ node_index' = 1
    /\ pc' = "generate"
    /\ UNCHANGED <<source_code, ast, labels, vm_program, link_index,
                   output_file, error>>

\* (mutant) the generation pass binds a label again when it passes it, so
\* that a branch sees the nearest declaration before it
GenLabel_Rebind ==
    /\ pc = "generate"
    /\ node_index <= Len(ast)
    /\ ast[node_index].type = "label"
    /\ labels' = DictSet(labels, ast[node_index].value.v, address_counter)
    /\ node_index' = node_index + 1
    /\ UNCHANGED <<source_code, pc, ast, address_counter, instructions,
                   vm_program, link_index, output_file, error>>

\* lines 184-185: label nodes are skipped (`continue` also skips line 209)
GenLabel ==
    /\ pc = "generate"
    /\ node_index <= Len(ast)
    /\ ast[node_index].type = "label"
    /\ node_index' = node_index + 1
    /\ UNCHANGED <<source_code, pc, ast, address_counter, labels, instructions,
                   vm_program, link_index, output_file, error>>

\* (mutant) a branch is rendered with its own address
GenBranch_CurrentAddress ==
    /\ pc = "generate"
    /\ node_index <= Len(ast)
    /\ ast[node_index].type = "opcode"
    /\ LET op == ast[node_index].value.opcode
           arg == ast[node_index].value.arg
       IN  /\ arg.ty # "NoneType" /\ IsBranch(op)
           /\ arg.v \in DOMAIN labels
           /\ instructions' =
                  Append(instructions, op.v \o <<" ">> \o IntStr(address_counter))
    /\ address_counter' = address_counter + 1
    /\ node_index' = node_index + 1
    /\ UNCHANGED <<source_code, pc, ast, labels, vm_program, link_index,
                   output_file, error>>

\* lines 191-201, 209: a branch to a label of the table
GenBranch ==
    /\ pc = "generate"
    /\ node_index <= Len(ast)
    /\ ast[node_index].type = "opcode"
    /\ LET op == ast[node_index].value.opcode
           arg == ast[node_index].value.arg
       IN  /\ arg.ty # "NoneType" /\ IsBranch(op)
           /\ arg.v \in DOMAIN labels
           /\ instructions' =
                  Append(instructions, op.v \o <<" ">> \o IntStr(labels[arg.v]))
    /\ address_counter' = address_counter + 1
    /\ node_index' = node_index + 1
    /\ UNCHANGED <<source_code, pc, ast, labels, vm_program, link_index,
                   output_file, error>>

\* (mutant) the instructions rendered so far are written before the error
GenUndefined_PartialOutput ==
    /\ pc = "generate"
    /\ node_index <= Len(ast)
    /\ ast[node_index].type = "opcode"
    /\ LET op == ast[node_index].value.opcode
           arg == ast[node_index].value.arg
       IN  /\ arg.ty # "NoneType" /\ IsBranch(op)
           /\ arg.v \notin DOMAIN labels
           /\ error' = UndefinedLabel(arg.v)
    /\ output_file' =
           [exists |-> TRUE,
            content |-> Flat([i \in 1..Len(instructions) |->
                                 Directive(i - 1, instructions[i])])]
    /\ pc' = "failed"
    /\ UNCHANGED <<source_code, ast, address_counter, labels, node_index,
                   instructions, vm_program, link_index>>

\* lines 191-198: a branch to a name that is not in the table
GenUndefined ==
    /\ pc = "generate"
    /\ node_index <= Len(ast)
    /\ ast[node_index].type = "opcode"
    /\ LET op == ast[node_index].value.opcode
           arg == ast[node_index].value.arg
       IN  /\ arg.ty # "NoneType" /\ IsBranch(op)
           /\ arg.v \notin DOMAIN labels
           /\ error' = UndefinedLabel(arg.v)
    /\ pc' = "failed"
    /\ UNCHANGED <<source_code, ast, address_counter, labels, node_index,
                   instructions, vm_program, link_index, output_file>>

\* (mutant) `elif not arg`: a falsy operand counts as no operand
GenNoArg_Falsy ==
    /\ pc = "generate"
    /\ node_index <= Len(ast)
    /\ ast[node_index].type = "opcode"
    /\ LET op == ast[node_index].value.opcode
           arg == ast[node_index].value.arg
       IN  /\ ~(arg.ty # "NoneType" /\ IsBranch(op))
           /\ \/ arg.ty = "NoneType"
              \/ arg.ty = "int" /\ arg.v = 0
           /\ instructions' = Append(instructions, op.v)
    /\ address_counter' = address_counter + 1
    /\ node_index' = node_index + 1
    /\ UNCHANGED <<source_code, pc, ast, labels, vm_program, link_index,
                   output_file, error>>

\* lines 203-204, 209: an instruction without operand
GenNoArg ==
    /\ pc = "generate"
    /\ node_index <= Len(ast)
    /\ ast[node_index].type = "opcode"
    /\ LET op == ast[node_index].value.opcode
           arg == ast[node_index].value.arg
       IN  /\ ~(arg.ty # "NoneType" /\ IsBranch(op))
           /\ arg.ty = "NoneType"
           /\ instructions' = Append(instructions, op.v)
    /\ address_counter' = address_counter + 1
    /\ node_index' = node_index + 1
    /\ UNCHANGED <<source_code, pc, ast, labels, vm_program, link_index,
                   output_file, error>>

\* lines 206-207, 209: any other instruction with an operand
GenArg ==
    /\ pc = "generate"
    /\ node_index <= Len(ast)
    /\ ast[node_index].type = "opcode"
    /\ LET op == ast[node_index].value.opcode
           arg == ast[node_index].value.arg
       IN  /\ ~(arg.ty # "NoneType" /\ IsBranch(op))
           /\ arg.ty # "NoneType"
           /\ instructions' = Append(instructions, op.v \o <<" ">> \o Str(arg))
    /\ address_counter' = address_counter + 1
    /\ node_index' = node_index + 1
    /\ UNCHANGED <<source_code, pc, ast, labels, vm_program, link_index,
                   output_file, error>>

\* (mutant) the output file is opened while the second loop still runs
Open_BeforeGenerated ==
    /\ pc = "generate"
    /\ output_file' = [exists |-> TRUE, content |-> <<>>]
    /\ vm_program' = <<>>
    /\ link_index' = 1
    /\ pc' = "link"
    /\ UNCHANGED <<source_code, ast, address_counter, labels, node_index,
                   instructions, error>>

\* lines 212-213: after the second loop the output file is opened for
\* writing (created, or truncated) and the program text starts empty
Open ==
    /\ pc = "generate"
    /\ node_index > Len(ast)
    /\ output_file' = [exists |-> TRUE, content |-> <<>>]
    /\ vm_program' = <<>>
    /\ link_index' = 1
    /\ pc' = "link"
    /\ UNCHANGED <<source_code, ast, address_counter, labels, node_index,
                   instructions, error>>

\* (mutant) the directives are numbered from 1
Link_IndexFromOne ==
    /\ pc = "link"
    /\ link_index <= Len(instructions)
    /\ vm_program' =
           vm_program \o Directive(link_index, instructions[link_index])
    /\ link_index' = link_index + 1
    /\ UNCHANGED <<source_code, pc, ast, address_counter, labels, node_index,
                   instructions, output_file, error>>

\* lines 215-216: one directive per instruction; enumerate counts from 0
Link ==
    /\ pc = "link"
    /\ link_index <= Len(instructions)
    /\ vm_program' =
           vm_program \o Directive(link_index - 1, instructions[link_index])
    /\ link_index' = link_index + 1
    /\ UNCHANGED <<source_code, pc, ast, address_counter, labels, node_index,
                   instructions, output_file, error>>

\* line 218: output_file.write(vm_program), and the file is closed
Write ==
    /\ pc = "link"
    /\ link_index > Len(instructions)
    /\ output_file' = [exists |-> TRUE, content |-> output_file.content \o vm_program]
    /\ pc' = "done"
    /\ UNCHANGED <<source_code, ast, address_counter, labels, node_index,
                   instructions, vm_program, link_index, error>>

Next ==
    \/ Parse
    \/ ResolveLabel
    \/ ResolveOpcode
    \/ ResetCounter
    \/ GenLabel
    \/ GenBranch
    \/ GenUndefined
    \/ GenNoArg
    \/ GenArg
    \/ Open
    \/ Link
    \/ Write

\* source texts made of whole statements
Spec == Init /\ [][Next]_vars

\* source texts made of lexical pieces
SpecLex == InitLex /\ [][Next]_vars

----------------------------------------------------------------------------
(* Vocabulary of the properties: positions and counts in the node sequence. *)

IsLabelAt(p) == ast[p].type = "label"
IsInstrAt(p) == ast[p].type = "opcode"

\* the number of Instruction nodes strictly before position p
InstrBefore(p) == Cardinality({q \in 1..(p - 1) : IsInstrAt(q)})

NumInstr == InstrBefore(Len(ast) + 1)

\* the positions that declare the name L, and the declared names
Decls(L) == {q \in 1..Len(ast) : IsLabelAt(q) /\ ast[q].value.v = L}
Declared == {ast[q].value.v : q \in {q \in 1..Len(ast) : IsLabelAt(q)}}

SetMax(S) == CHOOSE x \in S : \A y \in S : y <= x
SetMin(S) == CHOOSE x \in S : \A y \in S : x <= y
LastDecl(L) == SetMax(Decls(L))

\* the positions of the jmp/jif/call instructions, and the name each refers to
BranchNodes ==
    {p \in 1..Len(ast) :
        IsInstrAt(p) /\ ast[p].value.opcode.v \in {w_jmp, w_jif, w_call}}
Target(p) == ast[p].value.arg.v

\* the node at position p has been rendered; its rendering
IsRendered(p) == IsInstrAt(p) /\ InstrBefore(p) < Len(instructions)
Rendered(p) == instructions[InstrBefore(p) + 1]

\* generation has completed without error
Generated == pc \in {"link", "done"}

\* the address written in the rendering of the branch at position p
RenderedAddress(p) ==
    int(SubSeq(Rendered(p), Len(ast[p].value.opcode.v) + 2, Len(Rendered(p))))

----------------------------------------------------------------------------
(* C1: every jmp/jif/call to a declared label L is rendered as the opcode, *)
(* a space and the address of the instruction that follows the (last)      *)
(* declaration of L, i.e. the number of Instruction nodes before that      *)
(* declaration; references before and after the declaration get the same   *)
(* address.                                                                *)
C1_BranchResolvesToDeclaration ==
    \A p \in BranchNodes :
        (IsRendered(p) /\ Target(p) \in Declared) =>
            /\ Rendered(p) = ast[p].value.opcode.v \o <<" ">>
                                \o IntStr(InstrBefore(LastDecl(Target(p))))
            /\ \A q \in (LastDecl(Target(p)) + 1)..Len(ast) :
                   (IsInstrAt(q) /\ \A m \in (LastDecl(Target(p)) + 1)..(q - 1) : IsLabelAt(m))
                       => RenderedAddress(p) = InstrBefore(q)
            /\ \A p2 \in BranchNodes :
                   (IsRendered(p2) /\ Target(p2) = Target(p))
                       => RenderedAddress(p2) = RenderedAddress(p)

\* a finished run with a forward and a backward reference to the same label,
\* whose declaration is followed by an instruction
C1_Witness ==
    /\ pc = "done"
    /\ \E p1, p2 \in BranchNodes :
          /\ Target(p1) = Target(p2)
          /\ Cardinality(Decls(Target(p1))) = 1
          /\ p1 < LastDecl(Target(p1))
          /\ LastDecl(Target(p1)) < p2
          /\ InstrBefore(LastDecl(Target(p1))) > 0

----------------------------------------------------------------------------
(* C4: during the resolver pass the counter equals the number of           *)
(* Instruction nodes passed and the table holds exactly the names declared *)
(* so far, each bound to the number of Instruction nodes before its last   *)
(* declaration so far; after the pass this holds of the whole sequence.    *)

\* the positions the resolver pass has handled
Resolved == IF pc = "parse" THEN 0
            ELSE IF pc = "resolve" THEN node_index - 1
            ELSE Len(ast)

C4_LabelTable ==
    /\ DOMAIN labels = {ast[q].value.v : q \in {q \in 1..Resolved : IsLabelAt(q)}}
    /\ \A L \in DOMAIN labels :
           labels[L] = InstrBefore(SetMax({q \in Decls(L) : q <= Resolved}))
    /\ pc = "resolve" => address_counter = InstrBefore(node_index)

\* the pass is over and a name declared twice, at different addresses, is in
\* the table
C4_Witness ==
    /\ pc = "generate"
    /\ \E L \in Declared :
          /\ Cardinality(Decls(L)) >= 2
          /\ InstrBefore(SetMin(Decls(L))) # InstrBefore(LastDecl(L))
          /\ L \in DOMAIN labels

----------------------------------------------------------------------------
(* C2: a run ends with the undefined-label error exactly when some         *)
(* jmp/jif/call node of the parsed program names a label declared nowhere  *)
(* in it, and the error names the first such label; a run that failed,     *)
(* with this error or with a syntax error, has not created or written the  *)
(* output.                                                                 *)

UndeclaredRefs == {p \in BranchNodes : Target(p) \notin Declared}

C2_UndefinedLabelError ==
    /\ pc \in {"done", "failed"} =>
           (error.kind = "Exception" <=> UndeclaredRefs # {})
    /\ error.kind = "Exception" =>
           /\ UndeclaredRefs # {}
           /\ error = UndefinedLabel(Target(SetMin(UndeclaredRefs)))
    /\ (pc = "failed" \/ error # NoError) => output_file = NoFile

\* the run failed at an undefined label after rendering an earlier instruction
C2_Witness ==
    /\ pc = "failed"
    /\ error.kind = "Exception"
    /\ Len(instructions) > 0

----------------------------------------------------------------------------
(* C3: the output of a finished run is one directive per Instruction node  *)
(* and nothing else: directive i (from 0, contiguous) carries the          *)
(* rendering of the i-th Instruction node in source order, and Label nodes *)
(* give no directive.                                                      *)

\* the positions of the Instruction nodes, in source order
RECURSIVE InstrPositions(_)
InstrPositions(n) ==
    IF n = 0 THEN <<>>
    ELSE IF IsInstrAt(n) THEN Append(InstrPositions(n - 1), n)
    ELSE InstrPositions(n - 1)

\* the rendering section 4.3 of the specification asks of a node
Rendering(node) ==
    IF node.value.arg.ty = "NoneType" THEN node.value.opcode.v
    ELSE IF node.value.opcode.v \in {w_jmp, w_jif, w_call}
    THEN node.value.opcode.v \o <<" ">> \o IntStr(labels[node.value.arg.v])
    ELSE node.value.opcode.v \o <<" ">> \o Str(node.value.arg)

\* the text of the directive with index i and body b
DirectiveText(i, b) ==
    <<"a","l","i","a","s"," ","_","_","s","v","m",".">> \o IntStr(i)
        \o <<" ", "\"">> \o b \o <<"\"", "\n">>

C3_OneDirectivePerInstruction ==
    pc = "done" =>
        LET ps == InstrPositions(Len(ast)) IN
        /\ Len(instructions) = NumInstr
        /\ Len(ps) = NumInstr
        /\ output_file.exists
        /\ output_file.content =
               Flat([i \in 1..Len(ps) |-> DirectiveText(i - 1, Rendering(ast[ps[i]]))])

\* a finished run over labels and at least two instructions
C3_Witness ==
    /\ pc = "done"
    /\ NumInstr >= 2
    /\ Declared # {}
    /\ Len(output_file.content) > 0

----------------------------------------------------------------------------
(* C5: a name declared more than once.  The second and the third           *)
(* declaration of L, when they exist:                                      *)

NthDecl(L, n) == CHOOSE q \in Decls(L) : Cardinality({r \in Decls(L) : r <= q}) = n

\* the branches that lie after the second declaration of their target and
\* before any third declaration of it
AfterSecondDecl ==
    {p \in BranchNodes :
        /\ Cardinality(Decls(Target(p))) >= 2
        /\ NthDecl(Target(p), 2) < p
        /\ Cardinality(Decls(Target(p))) >= 3 => p < NthDecl(Target(p), 3)}

(* C5 as stated: such a branch is rendered with the address bound by the   *)
(* second declaration.                                                     *)
C5_SecondDeclarationWins ==
    \A p \in AfterSecondDecl :
        IsRendered(p) =>
            Rendered(p) = ast[p].value.opcode.v \o <<" ">>
                              \o IntStr(InstrBefore(NthDecl(Target(p), 2)))

(* C5 amended: such a branch is rendered with the address bound by the     *)
(* last declaration of the name in the whole source; that is the second    *)
(* declaration exactly when the name has no third declaration.             *)
C5_LastDeclarationWins ==
    \A p \in AfterSecondDecl :
        IsRendered(p) =>
            /\ Rendered(p) = ast[p].value.opcode.v \o <<" ">>
                                 \o IntStr(InstrBefore(LastDecl(Target(p))))
            /\ Cardinality(Decls(Target(p))) = 2 =>
                   RenderedAddress(p) = InstrBefore(NthDecl(Target(p), 2))

\* a rendered branch between the second and a third declaration of its
\* target, where those two bind different addresses
C5_Witness ==
    \E p \in AfterSecondDecl :
        /\ IsRendered(p)
        /\ Cardinality(Decls(Target(p))) >= 3
        /\ InstrBefore(NthDecl(Target(p), 2)) # InstrBefore(LastDecl(Target(p)))

----------------------------------------------------------------------------
(* C10: after generation, with N rendered instructions, every address a    *)
(* rendered in a jmp/jif/call satisfies 0 <= a <= N, and a = N exactly     *)
(* when no Instruction node follows the last declaration of the label.     *)
C10_AddressRange ==
    Generated =>
        \A p \in BranchNodes :
            /\ 0 <= RenderedAddress(p)
            /\ RenderedAddress(p) <= Len(instructions)
            /\ RenderedAddress(p) = Len(instructions) <=>
                   ~\E q \in (LastDecl(Target(p)) + 1)..Len(ast) : IsInstrAt(q)

\* a finished run with a branch to a label declared after the last instruction
C10_Witness ==
    /\ pc = "done"
    /\ \E p \in BranchNodes : RenderedAddress(p) = Len(instructions)
    /\ \E p \in BranchNodes : RenderedAddress(p) < Len(instructions)

----------------------------------------------------------------------------
(* C6: `push /X`, X an identifier.                                         *)

\* the source text starts with `push /X`; X is the identifier after the '/'
StartsWithPushString ==
    /\ Len(source_code) > Len(w_push) + 2
    /\ SubSeq(source_code, 1, Len(w_push) + 2) = w_push \o <<" ", "/">>
    /\ source_code[Len(w_push) + 3] \in IdentStart
PushedIdent ==
    SubSeq(source_code, Len(w_push) + 3,
           Span(source_code, Len(w_push) + 3, IdentChar) - 1)

(* C6 as stated: the node's operand and the rendered instruction carry the *)
(* bare identifier X, without the '/' marker.                              *)
C6_MarkerStripped ==
    (StartsWithPushString /\ Len(instructions) >= 1) =>
        /\ ast[1].value.arg.v = PushedIdent
        /\ instructions[1] = w_push \o <<" ">> \o PushedIdent

(* C6 amended: the '/' marker is kept: the node's operand is the text "/X" *)
(* and the instruction is rendered, and written, as "push /X".             *)
C6_MarkerKept ==
    /\ (StartsWithPushString /\ Len(instructions) >= 1) =>
           /\ ast[1].value.opcode.v = w_push
           /\ ast[1].value.arg = PyStr(<<"/">> \o PushedIdent)
           /\ instructions[1] = w_push \o <<" ", "/">> \o PushedIdent
    /\ (StartsWithPushString /\ pc = "done") =>
           LET d == DirectiveText(0, w_push \o <<" ", "/">> \o PushedIdent) IN
           SubSeq(output_file.content, 1, Len(d)) = d
    /\ \A p \in 1..Len(ast) :
           (IsRendered(p) /\ ast[p].value.opcode.v = w_push /\ ast[p].value.arg.ty = "str")
               => /\ ast[p].value.arg.v[1] = "/"
                  /\ Rendered(p) = w_push \o <<" ">> \o ast[p].value.arg.v

\* a finished run of a source that starts with `push /X`
C6_Witness ==
    /\ StartsWithPushString
    /\ pc = "done"
    /\ Len(instructions) >= 1

----------------------------------------------------------------------------
(* C7: keywords match only as whole words.                                 *)

Keywords ==
    {w_push, w_pop, w_dup, w_dot, w_add, w_sub, w_mul, w_div, w_pow, w_min,
     w_max, w_jmp, w_jif, w_call, w_ret, w_eq, w_ne, w_lt, w_le, w_gt, w_ge,
     w_store, w_load, w_gstore, w_gload, w_hlt, w_true, w_false}
OperandKeywords == {w_store, w_load, w_gstore, w_gload, w_jmp, w_jif, w_call}

\* the identifier that starts at index i of the source text
IdentAt(i) == SubSeq(source_code, i, Span(source_code, i, IdentChar) - 1)

\* the text at index i is the keyword k and one more identifier character
KeywordPrefixed(k, i) ==
    /\ i + Len(k) <= Len(source_code)
    /\ source_code[i] = k[1]
    /\ SubSeq(source_code, i, i + Len(k) - 1) = k
    /\ source_code[i + Len(k)] \in IdentChar

\* the indexes of the source text where an identifier starts that starts
\* with a keyword and continues with at least one more character
KeywordPrefixedAt ==
    {i \in 1..Len(source_code) : \E k \in Keywords : KeywordPrefixed(k, i)}

\* the whole source text is t
SourceIs(t) == source_code = t

(* At every index where an identifier that starts with a keyword begins:   *)
(* the statement parser accepts it exactly when a ':' follows it, and then *)
(* as a label of the whole identifier; and after store/load/gstore/gload/  *)
(* jmp/jif/call the whole identifier is the operand.  For a source text    *)
(* that is just such an identifier, such a label, or such an instruction,  *)
(* the run fails with a syntax error, or has the one node.                 *)
C7_KeywordWholeWord ==
    \A i \in KeywordPrefixedAt :
        LET w == IdentAt(i)
            after == i + Len(w)
            st == statement(source_code, i)
        IN  /\ st.ok <=> (after <= Len(source_code) /\ source_code[after] = ":")
            /\ st.ok => st.val = [type |-> "label", value |-> PyStr(w)]
            /\ \A j \in 1..(i - 1) : \A k \in OperandKeywords :
                   (/\ source_code[j] = k[1]
                    /\ literal(k, source_code, j).ok
                    /\ literal(k, source_code, j).idx = i)
                       => LET op == statement(source_code, j) IN
                          /\ op.ok
                          /\ op.val.type = "opcode"
                          /\ op.val.value.arg = PyStr(w)
                          /\ op.idx = WHITESPACE(source_code, after).idx
            /\ (i = 1 /\ after = Len(source_code) + 1 /\ pc # "parse")
                   => (pc = "failed" /\ error = ParseError /\ ast = <<>>)
            /\ (i = 1 /\ SourceIs(w \o <<":">>) /\ pc # "parse")
                   => (error = NoError /\ ast = <<[type |-> "label", value |-> PyStr(w)]>>)
            /\ \A k \in OperandKeywords :
                   (SourceIs(k \o <<" ">> \o w) /\ pc # "parse")
                       => /\ error # ParseError
                          /\ Len(ast) = 1
                          /\ ast[1].type = "opcode"
                          /\ ast[1].value.arg = PyStr(w)

\* a parsed source with an instruction whose operand is an identifier that
\* starts with a keyword
C7_Witness ==
    /\ pc = "resolve"
    /\ \E i \in KeywordPrefixedAt :
          \E p \in 1..Len(ast) :
              /\ IsInstrAt(p)
              /\ ast[p].value.opcode.v \in {w_store_l, w_load_l, w_store_g, w_load_g}
              /\ ast[p].value.arg.v = IdentAt(i)

----------------------------------------------------------------------------
(* C9: an instruction is rendered as its opcode name alone exactly when    *)
(* its node has no operand; an operand of value zero is rendered: the      *)
(* sources `push 0` and `push false` give "push 0", `push true` gives      *)
(* "push 1".                                                               *)

\* the source text is t, or t and a line end
SourceLine(t) == source_code \in {t, t \o <<"\n">>}

C9_BareOpcodeIffNoOperand ==
    /\ \A p \in 1..Len(ast) :
           IsRendered(p) =>
               /\ (Rendered(p) = ast[p].value.opcode.v) <=> (ast[p].value.arg.ty = "NoneType")
               /\ (ast[p].value.opcode.v = w_push /\ ast[p].value.arg.ty = "int"
                   /\ ast[p].value.arg.v = 0)
                      => Rendered(p) = <<"p","u","s","h"," ","0">>
    /\ (pc # "parse" /\ (SourceLine(<<"p","u","s","h"," ","0">>) \/ SourceLine(<<"p","u","s","h"," ","f","a","l","s","e">>)))
           => /\ pc # "failed"
              /\ Generated => instructions = <<<<"p","u","s","h"," ","0">>>>
    /\ (pc # "parse" /\ SourceLine(<<"p","u","s","h"," ","t","r","u","e">>))
           => /\ pc # "failed"
              /\ Generated => instructions = <<<<"p","u","s","h"," ","1">>>>

\* a finished run of the source `push false`
C9_Witness ==
    /\ pc = "done"
    /\ SourceLine(<<"p","u","s","h"," ","f","a","l","s","e">>)
    /\ Len(instructions) = 1

----------------------------------------------------------------------------
(* C8: the script goes parse, resolve, generate, emit, never back, and a   *)
(* pass ends only when it has handled every node.  The node sequence       *)
(* changes only in parsing; the label table only in resolution, before any *)
(* instruction is rendered; instructions are rendered only in generation,  *)
(* over the complete table; the output file changes only once every        *)
(* Instruction node is rendered; the undefined-label error is raised only  *)
(* in generation.                                                          *)
C8_PhaseOrder ==
    [][ /\ pc' # pc =>
               \/ pc = "parse" /\ pc' \in {"resolve", "failed"}
               \/ pc = "resolve" /\ pc' = "generate" /\ node_index > Len(ast)
               \/ pc = "generate" /\ pc' = "failed"
               \/ pc = "generate" /\ pc' = "link" /\ node_index > Len(ast)
               \/ pc = "link" /\ pc' = "done" /\ link_index > Len(instructions)
        /\ ast' # ast => pc = "parse"
        /\ labels' # labels =>
               /\ pc = "resolve" /\ pc' = "resolve"
               /\ instructions = <<>> /\ instructions' = <<>>
        /\ instructions' # instructions =>
               /\ pc = "generate"
               /\ DOMAIN labels = Declared
        /\ output_file' # output_file =>
               /\ pc \in {"generate", "link"}
               /\ node_index > Len(ast)
               /\ Len(instructions) = NumInstr
               /\ error = NoError
        /\ (error' # error /\ error'.kind = "Exception") =>
               /\ pc = "generate"
               /\ DOMAIN labels = Declared
      ]_vars

\* a run that failed at an undefined label although the program declares
\* a label and renders an instruction
C8_Witness ==
    /\ pc = "failed"
    /\ error.kind = "Exception"
    /\ Declared # {}
    /\ Len(instructions) > 0

====
